---- MODULE Spec2Model ----
(***************************************************************************)
(* campusnet-cli: the response cache of CampusNet (terms, subjects,        *)
(* find_courses, class_details), its cache paths, and the extractors       *)
(* parse_course_search_xml and parse_course_details_xml, modelled from     *)
(* src/campusnet.py.  Five specifications: Spec (calls of the CampusNet    *)
(* methods against the cache directory), SpecSearch (the row loop of the   *)
(* search extractor), SpecKeys (the cache path of a parameter tuple),      *)
(* SpecExtract (the extractors, the label scan and Course.from_instances   *)
(* applied to one input) and SpecEnrich (the loop of main that retrieves   *)
(* the details of every section).                                          *)
(*                                                                         *)
(* Text is modelled as a sequence of one-character strings, so that strip, *)
(* lower, startswith, split and join are computed as the code computes     *)
(* them.  Python's None is the value None below, which is no text.         *)
(***************************************************************************)
EXTENDS Integers, Sequences, FiniteSets, TLC

VARIABLES
    sHead,      \* search extractor: the raw cell texts of the table's first row
    sNorm,      \* search extractor: norm_headings, the normalized header texts
    sRows,      \* search extractor: the raw rows consumed so far, in page order
    pst,        \* search extractor: the loop state of parse_course_search_xml
    cache,      \* the cache directory: the function from each existing path to its text
    hist,       \* the calls of CampusNet methods made in this run, oldest first
    keyIn,      \* cache keys: a data kind and two parameter tuples of that kind
    keyOut,     \* cache keys: the paths computed for the two tuples
    exIn,       \* extractors: the operation applied and its input
    exOut,      \* extractors: what the operation returned or raised
    enr         \* main: the state of the loop that retrieves course details

vars == <<sHead, sNorm, sRows, pst, cache, hist, keyIn, keyOut, exIn, exOut, enr>>

searchVars == <<sHead, sNorm, sRows, pst>>
cacheVars == <<cache, hist>>
keyVars == <<keyIn, keyOut>>
exVars == <<exIn, exOut>>

(***************************************************************************)
(* Bounds of the model.                                                    *)
(***************************************************************************)
MaxRows == 5
MaxCalls == 2

(***************************************************************************)
(* Text.                                                                   *)
(***************************************************************************)
None == <<"None">>

Upper == <<"A", "B", "C", "D", "E", "F", "G", "H", "I", "J", "K", "L", "M",
           "N", "O", "P", "Q", "R", "S", "T", "U", "V", "W", "X", "Y", "Z">>
Lower == <<"a", "b", "c", "d", "e", "f", "g", "h", "i", "j", "k", "l", "m",
           "n", "o", "p", "q", "r", "s", "t", "u", "v", "w", "x", "y", "z">>
Digits == {"0", "1", "2", "3", "4", "5", "6", "7", "8", "9"}
Whitespace == {" ", "\n", "\t"}

Range(f) == {f[i] : i \in DOMAIN f}

\* str.lower() on one character
LowerOf == [c \in Range(Upper) |-> Lower[CHOOSE i \in DOMAIN Upper : Upper[i] = c]]
LowerChar(c) == IF c \in DOMAIN LowerOf THEN LowerOf[c] ELSE c

\* the regex class \w: letters, digits and the underscore
WordChars == Range(Upper) \cup Range(Lower) \cup Digits \cup {"_"}
IsWordChar(c) == c \in WordChars

\* str.strip(): drop leading and trailing whitespace
RECURSIVE LStrip(_)
LStrip(s) ==
    IF s # <<>> /\ Head(s) \in Whitespace THEN LStrip(Tail(s)) ELSE s

RECURSIVE RStrip(_)
RStrip(s) ==
    IF s # <<>> /\ s[Len(s)] \in Whitespace
    THEN RStrip(SubSeq(s, 1, Len(s) - 1))
    ELSE s

Strip(s) == RStrip(LStrip(s))

StartsWith(s, p) == Len(s) >= Len(p) /\ SubSeq(s, 1, Len(p)) = p

\* re.sub(r'\W|^(?=\d)', repl, s) from position i on: at each position the
\* first alternative matches one non-word character, which is replaced by
\* repl; failing that, the second alternative matches the empty text at the
\* start of s before a digit, repl is put there and the digit is kept; any
\* other character is kept.
RECURSIVE Sub(_, _, _)
Sub(s, i, repl) ==
    IF i > Len(s) THEN <<>>
    ELSE IF ~IsWordChar(s[i]) THEN repl \o Sub(s, i + 1, repl)
    ELSE IF i = 1 /\ s[i] \in Digits THEN repl \o <<s[i]>> \o Sub(s, i + 1, repl)
    ELSE <<s[i]>> \o Sub(s, i + 1, repl)

\* a variant whose second alternative is ^\d, which consumes the digit
RegexSub_consume(s) ==
    IF Len(s) > 0 /\ s[1] \in Digits THEN Sub(Tail(s), 1, <<>>) ELSE Sub(s, 1, <<>>)

\* re.sub(r'\W|^(?=\d)', '', s)
RegexSub(s) == Sub(s, 1, <<>>)

normalize(s) ==
    LET t == Strip(s)
        l == [i \in 1..Len(t) |-> LowerChar(t[i])]
    IN RegexSub(l)

(***************************************************************************)
(* CourseSearchResult: the dataclass of a section row.  All fifteen fields *)
(* are required keyword arguments (no defaults).                           *)
(***************************************************************************)
F_name == <<"n", "a", "m", "e">>
F_topic == <<"t", "o", "p", "i", "c">>
F_enrl == <<"e", "n", "r", "l">>
F_det == <<"d", "e", "t">>
F_classnr == <<"c", "l", "a", "s", "s", "n", "r">>
F_sect == <<"s", "e", "c", "t">>
F_begindateenddate ==
    <<"b", "e", "g", "i", "n", "d", "a", "t", "e", "e", "n", "d", "d", "a", "t", "e">>
F_days == <<"d", "a", "y", "s">>
F_time == <<"t", "i", "m", "e">>
F_room == <<"r", "o", "o", "m">>
F_instructor == <<"i", "n", "s", "t", "r", "u", "c", "t", "o", "r">>
F_comp == <<"c", "o", "m", "p">>
F_stat == <<"s", "t", "a", "t">>
F_enrltot == <<"e", "n", "r", "l", "t", "o", "t">>
F_sess == <<"s", "e", "s", "s">>

CourseSearchResultFields ==
    {F_name, F_topic, F_enrl, F_det, F_classnr, F_sect, F_begindateenddate,
     F_days, F_time, F_room, F_instructor, F_comp, F_stat, F_enrltot, F_sess}

(***************************************************************************)
(* parse_course_search_xml: the loop over the rows of the table.           *)
(***************************************************************************)
TopicMarker == <<"T", "o", "p", "i", "c", ":", " ">>
Filler == <<<<>>, <<>>, <<>>>>

\* [''.join(td.itertext()).strip() for td in tr.iter('td')]
RowTexts(raw) == [i \in 1..Len(raw) |-> Strip(raw[i])]

\* a variant that keeps the empty text
OrNone_keep(v) == v

\* v or None
OrNone(v) == IF v = <<>> THEN None ELSE v

\* {'sess': None} | {k: v or None for k, v in zip(norm_headings, r) if k}
\* (a key that occurs twice keeps the value of its last occurrence)
Kwargs(nh, r) ==
    LET n == IF Len(nh) < Len(r) THEN Len(nh) ELSE Len(r)
        keys == {nh[i] : i \in {j \in 1..n : nh[j] # <<>>}}
        lastIdx(k) == CHOOSE i \in 1..n : nh[i] = k /\ \A j \in 1..n : nh[j] = k => j <= i
    IN [k \in keys \cup {F_sess} |->
            IF k \in keys THEN OrNone(r[lastIdx(k)]) ELSE None]

\* CourseSearchResult(name=name, topic=None, **kwargs) raises TypeError when
\* kwargs repeats name or topic, holds a key that is no field, or lacks a field
ConstructOk(kw) ==
    /\ F_name \notin DOMAIN kw
    /\ F_topic \notin DOMAIN kw
    /\ DOMAIN kw \cup {F_name, F_topic} = CourseSearchResultFields

CourseSearchResult(name, topic, kw) ==
    [k \in CourseSearchResultFields |->
        IF k = F_name THEN name ELSE IF k = F_topic THEN topic ELSE kw[k]]

\* t = r[1]; if t.startswith('Topic: '): t = t.split(': ', 1)[-1]
RECURSIVE FindSep(_, _)
FindSep(s, i) ==
    IF i + 1 > Len(s) THEN 0
    ELSE IF s[i] = ":" /\ s[i + 1] = " " THEN i
    ELSE FindSep(s, i + 1)

SplitLast(s) ==
    LET i == FindSep(s, 1)
    IN IF i = 0 THEN s ELSE SubSeq(s, i + 2, Len(s))

TopicText(t) == IF StartsWith(t, TopicMarker) THEN SplitLast(t) ELSE t

\* courses = defaultdict(list); name = None
ParseInit == [name |-> None, keys |-> <<>>, secs |-> <<>>, status |-> "run", err |-> "none"]

\* a variant that lets the loop go on
Fail_absorb(st, e) == st

Fail(st, e) == [st EXCEPT !.status = "error", !.err = e]

\* a variant that puts the new section first
Append_front(st, x) ==
    IF st.name \in DOMAIN st.secs
    THEN [st EXCEPT !.secs[st.name] = <<x>> \o @]
    ELSE [st EXCEPT !.keys = Append(@, st.name),
                    !.secs = st.secs @@ (st.name :> <<x>>)]

\* courses[name].append(x)
Append_(st, x) ==
    IF st.name \in DOMAIN st.secs
    THEN [st EXCEPT !.secs[st.name] = Append(@, x)]
    ELSE [st EXCEPT !.keys = Append(@, st.name),
                    !.secs = st.secs @@ (st.name :> <<x>>)]

\* a variant that writes the topic of the first section of the course
SetTopic_first(st, t) == [st EXCEPT !.secs[st.name][1][F_topic] = t]

\* courses[name][-1].topic = t
SetTopic(st, t) ==
    LET n == Len(st.secs[st.name])
    IN [st EXCEPT !.secs[st.name][n][F_topic] = t]

\* a variant that keeps the first course name
SetName_once(st, r) == IF st.name = None THEN [st EXCEPT !.name = r[1]] ELSE st

\* name = r[0]
SetName(st, r) == [st EXCEPT !.name = r[1]]

\* a variant that gives the topic of a course without sections to the last
\* section of the course stored last
ProcessRow_lastcourse(st, nh, r) ==
    IF Len(r) = 1 THEN
        SetName(st, r)
    ELSE IF Len(r) = Len(nh) THEN
        IF st.name = None THEN Fail(st, "AssertionError")
        ELSE IF ~ConstructOk(Kwargs(nh, r)) THEN Fail(st, "TypeError")
        ELSE Append_(st, CourseSearchResult(st.name, None, Kwargs(nh, r)))
    ELSE IF Len(r) = 2 /\ r[1] = <<>> THEN
        IF st.name = None THEN Fail(st, "AssertionError")
        ELSE IF st.name \notin DOMAIN st.secs THEN
            IF st.keys = <<>> THEN Fail(st, "IndexError")
            ELSE LET c == st.keys[Len(st.keys)]
                 IN [st EXCEPT !.secs[c][Len(st.secs[c])][F_topic] = TopicText(r[2])]
        ELSE SetTopic(st, TopicText(r[2]))
    ELSE
        IF r = Filler THEN st ELSE Fail(st, "AssertionError")

\* one iteration of "for r in rows", r the stripped cell texts of the row
ProcessRow(st, nh, r) ==
    IF Len(r) = 1 THEN
        SetName(st, r)
    ELSE IF Len(r) = Len(nh) THEN
        IF st.name = None THEN Fail(st, "AssertionError")
        ELSE IF ~ConstructOk(Kwargs(nh, r)) THEN Fail(st, "TypeError")
        ELSE Append_(st, CourseSearchResult(st.name, None, Kwargs(nh, r)))
    ELSE IF Len(r) = 2 /\ r[1] = <<>> THEN
        IF st.name = None THEN Fail(st, "AssertionError")
        ELSE IF st.name \notin DOMAIN st.secs THEN Fail(st, "IndexError")
        ELSE SetTopic(st, TopicText(r[2]))
    ELSE
        IF r = Filler THEN st ELSE Fail(st, "AssertionError")

\* the whole loop over the rows after the header row
RECURSIVE ParseRows(_, _, _)
ParseRows(st, nh, rows) ==
    IF rows = <<>> \/ st.status # "run" THEN st
    ELSE ParseRows(ProcessRow(st, nh, RowTexts(Head(rows))), nh, Tail(rows))

\* headings, *rows = [...]; norm_headings = list(map(normalize, headings))
NormHeadings(head) == [i \in 1..Len(head) |-> normalize(Strip(head[i]))]

(***************************************************************************)
(* Inputs of the search extractor.                                         *)
(***************************************************************************)
H12 == << <<"E", "n", "r", "l", ".">>, <<"D", "e", "t", ".">>,
          <<"C", "l", "a", "s", "s", "N", "r">>, <<"S", "e", "c", "t", ".">>,
          <<"B", "e", "g", "i", "n", " ", "D", "a", "t", "e", " ", "-", " ",
            "E", "n", "d", " ", "D", "a", "t", "e">>,
          <<"D", "a", "y", "s">>, <<"T", "i", "m", "e">>, <<"R", "o", "o", "m">>,
          <<"I", "n", "s", "t", "r", "u", "c", "t", "o", "r">>,
          <<"C", "o", "m", "p", ".">>, <<"S", "t", "a", "t", ".">>,
          <<"E", "n", "r", "l", "/", "T", "o", "t">> >>
H3 == << <<"E", "n", "r", "l", ".">>, <<"D", "e", "t", ".">>,
         <<"C", "l", "a", "s", "s", "N", "r">> >>
H2 == << <<"E", "n", "r", "l", ".">>, <<"D", "e", "t", ".">> >>

\* the twelve columns with a column headed "-" after the second and a second
\* column headed "Enrl" at the end
H14 == SubSeq(H12, 1, 2) \o << <<"-">> >> \o SubSeq(H12, 3, 12) \o << <<"E", "n", "r", "l">> >>

H1 == << <<"E", "n", "r", "l", ".">> >>

Headers == {H12, H3, H2, H14, H1}

SectionRow(classnr, sect) ==
    << <<>>, <<" ">>, classnr, sect, <<"d">>, <<"M">>, <<"t">>, <<"r">>,
       <<"i">>, <<"L">>, <<"O">>, <<"5">> >>

SectionRow14(classnr, sect) ==
    LET r == SectionRow(classnr, sect)
    IN << <<"7">> >> \o SubSeq(r, 2, 2) \o << <<"k">> >> \o SubSeq(r, 3, 12) \o << <<"9">> >>

TitleRows == { << <<"A">> >>, << <<"B", " ">> >> }
SectionRows == { SectionRow(<<"1">>, <<"x">>), SectionRow(<<"2">>, <<"y">>),
                 SectionRow(<<>>, <<"x">>), SectionRow14(<<"3">>, <<"z">>) }
TopicRows == { << <<>>, <<"T", "o", "p", "i", "c", ":", " ", "X">> >>,
               << <<" ">>, <<"T", "o", "p", "i", "c", ":", " ", "Y", ":", " ", "Z">> >> }
OtherRows == { Filler, << <<>>, <<"N">> >>, << <<>>, <<" ">> >>, << <<"p">>, <<"q">> >>,
               << <<"p">>, <<"q">>, <<"r">>, <<"s">> >> }

RowInputs == TitleRows \cup SectionRows \cup TopicRows \cup OtherRows

(***************************************************************************)
(* The search extractor as a state machine: one row per step.              *)
(***************************************************************************)
Idle == [name |-> None, keys |-> <<>>, secs |-> <<>>, status |-> "idle", err |-> "none"]

SearchInit ==
    /\ sHead \in Headers
    /\ sNorm = NormHeadings(sHead)
    /\ sRows = <<>>
    /\ pst = ParseInit
    /\ cache = <<>>
    /\ hist = <<>>
    /\ keyIn = <<>>
    /\ keyOut = <<>>
    /\ exIn = <<>>
    /\ exOut = <<>>
    /\ enr = <<>>

\* the loop takes the next row of the table
SearchRow ==
    /\ pst.status = "run"
    /\ Len(sRows) < MaxRows
    /\ \E raw \in RowInputs :
        /\ sRows' = Append(sRows, raw)
        /\ pst' = ProcessRow(pst, sNorm, RowTexts(raw))
    /\ UNCHANGED <<sHead, sNorm, cacheVars, keyVars, exVars, enr>>

\* the table has no more rows: return dict(courses)
SearchReturn ==
    /\ pst.status = "run"
    /\ pst' = [pst EXCEPT !.status = "ok"]
    /\ UNCHANGED <<sHead, sNorm, sRows, cacheVars, keyVars, exVars, enr>>

SearchNext == SearchRow \/ SearchReturn

SpecSearch == SearchInit /\ [][SearchNext]_vars

(***************************************************************************)
(* Reference reading of the page, from the rows consumed so far.           *)
(***************************************************************************)
IsTitleAt(i) == Len(sRows[i]) = 1
IsSectionAt(i) == Len(sRows[i]) # 1 /\ Len(sRows[i]) = Len(sHead)

HasTitleBefore(i) == \E j \in 1..(i - 1) : IsTitleAt(j)

\* the text of the nearest title row before row i
TitleBefore(i) ==
    LET j == CHOOSE j \in 1..(i - 1) :
                 IsTitleAt(j) /\ \A k \in 1..(i - 1) : IsTitleAt(k) => k <= j
    IN Strip(sRows[j][1])

Indices == [i \in 1..Len(sRows) |-> i]

AttributedTo(c, i) == IsSectionAt(i) /\ HasTitleBefore(i) /\ TitleBefore(i) = c

\* the section rows attributed to course c, in page order
RowsOf(c) == SelectSeq(Indices, LAMBDA i : AttributedTo(c, i))

\* the columns whose key is not empty and is the key of no other column
PlainCols ==
    {i \in 1..Len(sHead) :
        sNorm[i] # <<>> /\ \A j \in 1..Len(sHead) : sNorm[j] = sNorm[i] => j = i}

\* the cells of a stored section, by column
CellsOf(sec) == [i \in PlainCols |-> sec[sNorm[i]]]

\* the cells of page row i, an empty cell read as no value
PageCells(i) == [j \in PlainCols |-> OrNone(Strip(sRows[i][j]))]

Alive == pst.status \in {"run", "ok"}

\* C8: row-order preservation. The sections stored under each course name
\* are exactly the section rows whose nearest preceding title row names that
\* course, in page order, also when a name recurs in non-adjacent title rows.
C8_RowOrder ==
    Alive =>
        /\ \A i \in 1..Len(sRows) :
               IsSectionAt(i) => HasTitleBefore(i) /\ TitleBefore(i) \in DOMAIN pst.secs
        /\ \A c \in DOMAIN pst.secs :
               [k \in 1..Len(pst.secs[c]) |-> CellsOf(pst.secs[c][k])]
                   = [k \in 1..Len(RowsOf(c)) |-> PageCells(RowsOf(c)[k])]

\* a finished extraction where course c has two different sections, the first
\* below an earlier title row of c and the second below a later, non-adjacent one
C8_Witness ==
    /\ pst.status = "ok"
    /\ \E c \in DOMAIN pst.secs :
        /\ Len(pst.secs[c]) = 2
        /\ pst.secs[c][1] # pst.secs[c][2]
        /\ \E i, j, k \in 1..Len(sRows) :
            /\ i < j /\ j < k
            /\ IsTitleAt(i) /\ IsTitleAt(j) /\ IsTitleAt(k)
            /\ Strip(sRows[i][1]) = c /\ Strip(sRows[j][1]) # c /\ Strip(sRows[k][1]) = c
            /\ RowsOf(c) = <<i + 1, k + 1>>

\* the row taken by the step, when the step takes one
Took == Len(sRows') = Len(sRows) + 1
TakenRow == RowTexts(sRows'[Len(sRows')])

IsMarkedTopicRow(r) ==
    Len(r) = 2 /\ r[1] = <<>> /\ StartsWith(r[2], TopicMarker) /\ Len(r[2]) > Len(TopicMarker)

C10_NameKey ==
    Alive =>
        /\ Range(pst.keys) = DOMAIN pst.secs
        /\ \A c \in DOMAIN pst.secs :
            /\ Len(pst.secs[c]) = Len(RowsOf(c))
            /\ \A k \in 1..Len(pst.secs[c]) :
                /\ pst.secs[c][k][F_name] = c
                /\ pst.secs[c][k][F_name] # None
                /\ pst.secs[c][k][F_name] = TitleBefore(RowsOf(c)[k])
        /\ \A i \in 1..Len(sRows) :
               IsSectionAt(i) =>
                   Cardinality({c \in DOMAIN pst.secs : AttributedTo(c, i)}) = 1

\* a finished extraction with sections under two different course names
C10_Witness ==
    /\ pst.status = "ok"
    /\ Cardinality(DOMAIN pst.secs) = 2
    /\ \A c \in DOMAIN pst.secs : Len(pst.secs[c]) >= 1

\* the stripped cell texts of page row i
RowAt(i) == RowTexts(sRows[i])

IsTopicRow(r) == Len(r) = 2 /\ r[1] = <<>> /\ StartsWith(r[2], TopicMarker)

\* a row that is no title row, no section row, no topic row with the marker
\* and not three empty cells
UnknownShape(r) ==
    Len(r) # 1 /\ Len(r) # Len(sHead) /\ ~IsTopicRow(r) /\ r # Filler

IsTwoCellRow(r) == Len(r) = 2 /\ r[1] = <<>>

C13_RowPreconditions ==
    [][ (Took /\ pst.status = "run") =>
          LET n == Len(sRows) + 1
              r == TakenRow
              isSection == Len(r) # 1 /\ Len(r) = Len(sHead)
              isTopic == Len(r) # 1 /\ Len(r) # Len(sHead) /\ IsTwoCellRow(r)
          IN /\ ((isSection \/ isTopic) /\ ~HasTitleBefore(n))
                => pst'.status = "error" /\ pst'.secs = pst.secs
             /\ (isTopic /\ HasTitleBefore(n) /\ RowsOf(TitleBefore(n)) = <<>>)
                => pst'.status = "error" /\ pst'.secs = pst.secs
             /\ (isTopic /\ pst'.status = "run")
                => /\ HasTitleBefore(n) /\ RowsOf(TitleBefore(n)) # <<>>
                   /\ \A d \in DOMAIN pst.secs \ {TitleBefore(n)} :
                         pst'.secs[d] = pst.secs[d]
      ]_vars

\* a course with a section, the title row of another course, then a topic
\* row: the extraction has failed and the section has no topic
C13_Witness ==
    /\ Len(sRows) = 4
    /\ IsTitleAt(1) /\ IsSectionAt(2) /\ IsTitleAt(3)
    /\ Strip(sRows[1][1]) # Strip(sRows[3][1])
    /\ IsTopicRow(RowAt(4))
    /\ pst.status = "error" /\ pst.err = "IndexError"
    /\ DOMAIN pst.secs = {Strip(sRows[1][1])}
    /\ pst.secs[Strip(sRows[1][1])][1][F_topic] = None

\* the step takes a section row and stores it
StoredSection ==
    /\ Took /\ pst.status = "run" /\ pst'.status = "run"
    /\ Len(TakenRow) # 1 /\ Len(TakenRow) = Len(sHead)

\* the section the step appended
NewSection == pst'.secs[pst.name][Len(pst'.secs[pst.name])]

\* all sections stored after the step
SectionsAfter ==
    UNION {Range(pst'.secs[c]) : c \in DOMAIN pst'.secs}

\* the value expected for a cell text: no value for the empty text
Expected(t) == IF Len(t) = 0 THEN None ELSE t

LastOfKey(j) == \A i \in 1..Len(sHead) : sNorm[i] = sNorm[j] => i <= j

AfterSection == Len(sRows) >= 1 /\ IsSectionAt(Len(sRows))

\* C22: a topic row whose preceding row is no section row (a filler row,
\* another topic row, a title row, also one that repeats the name of a course
\* with sections) is not accepted and changes no stored section.
C22_TopicAfterSection ==
    [][ ( /\ Took /\ pst.status = "run"
          /\ Len(sHead) # 2 /\ IsTopicRow(TakenRow)
          /\ ~AfterSection )
        => (pst'.status = "error" /\ pst'.secs = pst.secs)
      ]_vars

\* the number of sections stored under the current course name
StoredFor(st) == IF st.name \in DOMAIN st.secs THEN Len(st.secs[st.name]) ELSE 0

\* the step appended one section under the current course name
Appended == pst'.status = "run" /\ StoredFor(pst') = StoredFor(pst) + 1 /\ pst'.name = pst.name

\* C23: the rows are classified by the first test that matches, in the order
\* title, section, topic, filler. Under a two-column header every two-cell row
\* taken with a course name set, ["", "Topic: X"] included, is appended as a
\* section and sets no topic; under a three-column header a row of three
\* empty cells is appended as a section whose fields of the header are all
\* None; under a one-column header no row is stored as a section.
C23_FirstMatch ==
    [][ (Took /\ pst.status = "run") =>
          /\ (Len(sHead) = 2 /\ Len(TakenRow) = 2 /\ pst.name # None)
                => /\ Appended
                   /\ \A k \in 1..StoredFor(pst) :
                         pst'.secs[pst.name][k] = pst.secs[pst.name][k]
          /\ (Len(sHead) = 3 /\ TakenRow = Filler /\ pst.name # None)
                => /\ Appended
                   /\ \A j \in 1..Len(sHead) : NewSection[sNorm[j]] = None
          /\ Len(sHead) = 1 => pst'.secs = pst.secs
      ]_vars

(***************************************************************************)
(* Responses.  The text of an XML response is modelled by the element tree *)
(* that ET.fromstring builds from it; two responses are the same text iff  *)
(* they are the same value.                                                *)
(***************************************************************************)
Ok(v) == [status |-> "ok", err |-> "none", value |-> v]
Err(e) == [status |-> "error", err |-> e, value |-> <<>>]

NoElement == [present |-> FALSE, text |-> <<>>]
Element(t) == [present |-> TRUE, text |-> t]

\* the search envelope: <ErrorCode>, <ClassList>
SearchEnvelope(code, classlist) ==
    [wellformed |-> TRUE, error_code |-> code, classlist |-> classlist]

NOCL2 == <<"C", "S", "T", "C", "L", "S", "_", "N", "O", "C", "L", "2">>

\* a variant that reads the class list when there is one, whatever the code
parse_course_search_xml_table_first(env) ==
    IF ~env.wellformed THEN Err("ParseError")
    ELSE IF env.classlist.present /\ env.classlist.text # <<>> THEN
        IF env.classlist.text.tag # "table" THEN Err("AssertionError")
        ELSE IF env.classlist.text.rows = <<>> THEN Err("ValueError")
        ELSE
            LET st == ParseRows(ParseInit,
                                NormHeadings(Head(env.classlist.text.rows)),
                                Tail(env.classlist.text.rows))
            IN IF st.status = "error" THEN Err(st.err)
               ELSE Ok([keys |-> st.keys, secs |-> st.secs])
    ELSE IF env.error_code.present THEN
        IF env.error_code.text = NOCL2 THEN Ok([keys |-> <<>>, secs |-> <<>>])
        ELSE Err("CampusException")
    ELSE Err("CampusException")

\* parse_course_search_xml
parse_course_search_xml(env) ==
    IF ~env.wellformed THEN Err("ParseError")
    ELSE IF env.error_code.present THEN
        IF env.error_code.text = NOCL2 THEN Ok([keys |-> <<>>, secs |-> <<>>])
        ELSE Err("CampusException")
    ELSE IF ~env.classlist.present \/ env.classlist.text = <<>> THEN
        Err("CampusException")
    ELSE IF env.classlist.text.tag # "table" THEN Err("AssertionError")
    ELSE IF env.classlist.text.rows = <<>> THEN Err("ValueError")
    ELSE
        LET st == ParseRows(ParseInit,
                            NormHeadings(Head(env.classlist.text.rows)),
                            Tail(env.classlist.text.rows))
        IN IF st.status = "error" THEN Err(st.err)
           ELSE Ok([keys |-> st.keys, secs |-> st.secs])

(***************************************************************************)
(* CourseDetailResult and parse_course_details_xml.                        *)
(***************************************************************************)
D_session == <<"s", "e", "s", "s", "i", "o", "n">>
D_consent == <<"c", "o", "n", "s", "e", "n", "t">>
D_component == <<"c", "o", "m", "p", "o", "n", "e", "n", "t">>
D_status == <<"s", "t", "a", "t", "u", "s">>
D_credits == <<"c", "r", "e", "d", "i", "t", "s">>
D_enrollment == <<"e", "n", "r", "o", "l", "l", "m", "e", "n", "t">>
D_lastdaytoadd == <<"l", "a", "s", "t", "d", "a", "y", "t", "o", "a", "d", "d">>
D_lastdaytodrop == <<"l", "a", "s", "t", "d", "a", "y", "t", "o", "d", "r", "o", "p">>
D_lastdaytowithdraw == <<"l", "a", "s", "t", "d", "a", "y", "t", "o", "w", "i", "t", "h", "d", "r", "a", "w">>
D_description == <<"d", "e", "s", "c", "r", "i", "p", "t", "i", "o", "n">>

CourseDetailResultFields ==
    {D_session, D_consent, D_component, D_status, D_credits, D_enrollment,
     D_lastdaytoadd, D_lastdaytodrop, D_lastdaytowithdraw, D_description}

\* the detail envelope: <ErrorCode>, <ClassDetails>; the text of ClassDetails
\* is an HTML fragment [tag, first_table, tds]: first_table the td.text of the
\* cells of div.find('table/tr/td/table') (None for a cell with no direct
\* text, the whole value None when the table is missing), tds the stripped
\* non-blank text runs of each td of the tables below the main content cell
DetailEnvelope(code, classdetails) ==
    [wellformed |-> TRUE, error_code |-> code, classdetails |-> classdetails]

EndsWithColon(s) == s # <<>> /\ s[Len(s)] = ":"

\* for td1, td2 in pairwise(first_table_tds):
\*     if td1 and td1.endswith(':'): props[td1[:-1]] = td2.strip()
\* props as a sequence of <<label, value>>, a later pair overriding an earlier
RECURSIVE ScanPairs(_, _)
ScanPairs(tds, i) ==
    IF i + 1 > Len(tds) THEN Ok(<<>>)
    ELSE IF tds[i] # None /\ EndsWithColon(tds[i]) THEN
        IF tds[i + 1] = None THEN Err("AttributeError")
        ELSE LET rest == ScanPairs(tds, i + 1)
             IN IF rest.status = "error" THEN rest
                ELSE Ok(<< <<SubSeq(tds[i], 1, Len(tds[i]) - 1), Strip(tds[i + 1])>> >>
                        \o rest.value)
    ELSE ScanPairs(tds, i + 1)

DescriptionLabel == <<"C", "o", "u", "r", "s", "e", " ", "D", "e", "s", "c", "r", "i", "p", "t", "i", "o", "n", ":">>
DescriptionKey == <<"D", "e", "s", "c", "r", "i", "p", "t", "i", "o", "n">>

\* if items[0] == 'Course Description:': props['Description'] = items[1]
RECURSIVE ScanDescription(_, _)
ScanDescription(tds, i) ==
    IF i > Len(tds) THEN Ok(<<>>)
    ELSE IF tds[i] # <<>> /\ tds[i][1] = DescriptionLabel THEN
        IF Len(tds[i]) < 2 THEN Err("IndexError")
        ELSE LET rest == ScanDescription(tds, i + 1)
             IN IF rest.status = "error" THEN rest
                ELSE Ok(<< <<DescriptionKey, tds[i][2]>> >> \o rest.value)
    ELSE ScanDescription(tds, i + 1)

\* fields = {normalize(k): v for k, v in props.items()}
FieldsOf(props) ==
    LET nk == [i \in 1..Len(props) |-> normalize(props[i][1])]
        keys == Range(nk)
        lastIdx(k) == CHOOSE i \in 1..Len(props) :
                          /\ nk[i] = k
                          /\ \A j \in 1..Len(props) : nk[j] = k => j <= i
    IN [k \in keys |-> props[lastIdx(k)][2]]

\* a variant that takes the code CSTCLS_NOCL2 for no error
parse_course_details_xml_benign(env) ==
    IF ~env.wellformed THEN Err("Exception")
    ELSE IF env.error_code.present /\ env.error_code.text # NOCL2 THEN Err("CampusException")
    ELSE IF ~env.classdetails.present \/ env.classdetails.text = <<>> THEN
        Err("CampusException")
    ELSE IF env.classdetails.text.tag # "div" THEN Err("AssertionError")
    ELSE IF env.classdetails.text.first_table = None THEN Err("AttributeError")
    ELSE
        LET pairs == ScanPairs(env.classdetails.text.first_table, 1)
            desc == ScanDescription(env.classdetails.text.tds, 1)
        IN IF pairs.status = "error" THEN pairs
           ELSE IF desc.status = "error" THEN desc
           ELSE LET fields == FieldsOf(pairs.value \o desc.value)
                IN IF DOMAIN fields # CourseDetailResultFields THEN Err("TypeError")
                   ELSE Ok(fields)

\* parse_course_details_xml; CourseDetailResult(**fields) raises TypeError
\* unless the keys are exactly the ten fields of the dataclass
parse_course_details_xml(env) ==
    IF ~env.wellformed THEN Err("Exception")
    ELSE IF env.error_code.present THEN Err("CampusException")
    ELSE IF ~env.classdetails.present \/ env.classdetails.text = <<>> THEN
        Err("CampusException")
    ELSE IF env.classdetails.text.tag # "div" THEN Err("AssertionError")
    ELSE IF env.classdetails.text.first_table = None THEN Err("AttributeError")
    ELSE
        LET pairs == ScanPairs(env.classdetails.text.first_table, 1)
            desc == ScanDescription(env.classdetails.text.tds, 1)
        IN IF pairs.status = "error" THEN pairs
           ELSE IF desc.status = "error" THEN desc
           ELSE LET fields == FieldsOf(pairs.value \o desc.value)
                IN IF DOMAIN fields # CourseDetailResultFields THEN Err("TypeError")
                   ELSE Ok(fields)

(***************************************************************************)
(* subjects.parse and the terms file.                                      *)
(***************************************************************************)
\* the subjects envelope: SubjectList missing, or its children [tag, text]
SubjectsEnvelope(ok, list) == [wellformed |-> ok, subject_list |-> list]

\* [c.text for c in subject_list if c.tag == 'Subject' and c.text]
RECURSIVE SubjectTexts(_)
SubjectTexts(cs) ==
    IF cs = <<>> THEN <<>>
    ELSE IF Head(cs).tag = "Subject" /\ Head(cs).text # None /\ Head(cs).text # <<>>
         THEN <<Head(cs).text>> \o SubjectTexts(Tail(cs))
         ELSE SubjectTexts(Tail(cs))

subjects_parse(env) ==
    IF ~env.wellformed THEN Err("ParseError")
    ELSE IF ~env.subject_list.present THEN Ok(<<>>)
    ELSE Ok(SubjectTexts(env.subject_list.text))

\* '\n'.join(term_list)
RECURSIVE Join(_)
Join(l) ==
    IF l = <<>> THEN <<>>
    ELSE IF Len(l) = 1 THEN l[1]
    ELSE l[1] \o <<"\n">> \o Join(Tail(l))

\* the lines of a file: the pieces between newline characters
RECURSIVE Lines(_, _)
Lines(s, cur) ==
    IF s = <<>> THEN (IF cur = <<>> THEN <<>> ELSE <<cur>>)
    ELSE IF Head(s) = "\n" THEN <<cur \o <<"\n">> >> \o Lines(Tail(s), <<>>)
    ELSE Lines(Tail(s), Append(cur, Head(s)))

\* [line.strip() for line in f if line.strip()]
ReadTerms(text) ==
    LET ls == Lines(text, <<>>)
        stripped == [i \in 1..Len(ls) |-> Strip(ls[i])]
    IN SelectSeq(stripped, LAMBDA l : l # <<>>)

(***************************************************************************)
(* Cache paths, below cachedir.                                            *)
(***************************************************************************)
TermsPath == <<"t", "e", "r", "m", "s", ".", "t", "x", "t">>
SubjectsPath(term, acad) == <<"s", "u", "b", "j", "e", "c", "t", "s", "_">> \o term \o <<"_">> \o acad \o <<".", "t", "x", "t">>
SearchPath(term, subject) == <<"s", "e", "a", "r", "c", "h", "/">> \o term \o <<"_">> \o subject \o <<".", "x", "m", "l">>
DetailsPath(termNbr, classNbr, acad) ==
    <<"d", "e", "t", "a", "i", "l", "s", "/">> \o termNbr \o <<"_">> \o classNbr \o <<"_">> \o acad \o <<".", "x", "m", "l">>

\* a variant that never finds the entry
Exists_never(c, path) == FALSE

Exists(c, path) == path \in DOMAIN c

\* open(path, 'w').write(text)
Write(c, path, text) == [p \in DOMAIN c \cup {path} |-> IF p = path THEN text ELSE c[p]]

(***************************************************************************)
(* Inputs of the cache model.                                              *)
(***************************************************************************)
\* what the network does when asked: raise, or answer with a body
Raise == [raise |-> TRUE, body |-> <<>>]
Answer(b) == [raise |-> FALSE, body |-> b]

Acads == {<<"G", "R", "A", "D">>, <<"U", "G", "R", "D">>}
TermVals == {<<"1", "1", "4">>}
SubjectVals == {<<"C", "I", "S">>, <<"S", "T", "A">>}
ClassNbrs == {<<"2", "6", "4", "4">>}

\* the pages of the term search: no term block, a block with two plain
\* values, a block with a padded value and an empty one
TermsNet ==
    {Raise, Answer(NoElement),
     Answer(Element(<< <<"1", "1", "4">>, <<"1", "1", "5">> >>)),
     Answer(Element(<< <<" ", "1", "1", "4">>, <<>> >>))}

SubjectsNet ==
    {Raise,
     Answer(SubjectsEnvelope(FALSE, NoElement)),
     Answer(SubjectsEnvelope(TRUE, Element(<<
         [tag |-> "Subject", text |-> <<"C", "I", "S">>],
         [tag |-> "Other", text |-> <<"x">>],
         [tag |-> "Subject", text |-> None] >>)))}

Table1 ==
    [tag |-> "table",
     rows |-> <<H12, << <<"C", "I", "S", " ", "8", "9", "5">> >>, SectionRow(<<"2", "6", "4", "4">>, <<"0", "0", "1">>),
                << <<>>, <<"T", "o", "p", "i", "c", ":", " ", "X">> >> >>]
TableBad ==
    [tag |-> "table", rows |-> <<H12, << <<"C", "I", "S", " ", "8", "9", "5">> >>, << <<"p">>, <<"q">> >> >>]

SearchNet ==
    {Raise,
     Answer(SearchEnvelope(Element(NOCL2), NoElement)),
     Answer(SearchEnvelope(Element(<<"O", "T", "H", "E", "R">>), Element(Table1))),
     Answer(SearchEnvelope(NoElement, Element(Table1))),
     Answer(SearchEnvelope(NoElement, Element(TableBad))),
     Answer(SearchEnvelope(NoElement, NoElement))}

FirstTable(credits) ==
    << <<"S", "e", "s", "s", "i", "o", "n", ":">>, <<"R", "e", "g", "u", "l", "a", "r">>, <<"C", "o", "n", "s", "e", "n", "t", ":">>, <<"N", "o">>, <<"C", "o", "m", "p", "o", "n", "e", "n", "t", ":">>, <<"L", "E", "C">>,
       <<"S", "t", "a", "t", "u", "s", ":">>, <<"O", "p", "e", "n">>, <<"C", "r", "e", "d", "i", "t", "s", ":">>, credits, <<"E", "n", "r", "o", "l", "l", "m", "e", "n", "t", ":">>, <<"5", "/", "3", "0">>,
       <<"L", "a", "s", "t", " ", "D", "a", "y", " ", "t", "o", " ", "A", "d", "d", ":">>, <<"0", "9", "/", "0", "1">>, <<"L", "a", "s", "t", " ", "D", "a", "y", " ", "t", "o", " ", "D", "r", "o", "p", ":">>, <<"0", "9", "/", "0", "8">>,
       <<"L", "a", "s", "t", " ", "D", "a", "y", " ", "t", "o", " ", "W", "i", "t", "h", "d", "r", "a", "w", ":">>, <<"1", "0", "/", "3", "1">> >>

DescriptionTds == << <<<<"C", "o", "u", "r", "s", "e", " ", "D", "e", "s", "c", "r", "i", "p", "t", "i", "o", "n", ":">>, <<"A", "n", " ", "i", "n", "t", "r", "o", "d", "u", "c", "t", "i", "o", "n">>>> >>

DetailDiv(first_table, tds) ==
    [tag |-> "div", first_table |-> first_table, tds |-> tds]

DetailNet ==
    {Raise,
     Answer(DetailEnvelope(Element(NOCL2), NoElement)),
     Answer(DetailEnvelope(NoElement, Element(DetailDiv(FirstTable(<<"3", ".", "0", "0">>), DescriptionTds)))),
     Answer(DetailEnvelope(NoElement, Element(DetailDiv(FirstTable(<<"3", ".", "0", "0">>), <<>>)))),
     Answer(DetailEnvelope(NoElement, NoElement)),
     Answer([wellformed |-> FALSE, error_code |-> NoElement, classdetails |-> NoElement]),
     Answer(DetailEnvelope(NoElement, Element(DetailDiv(
         FirstTable(<<"3", ".", "0", "0">>) \o << <<"U", "n", "i", "t", "s", ":">>, <<"3">> >>,
         DescriptionTds))))}

\* the bodies the network can send, and what the extractors make of each
\* (the extractors applied once to each body)
Bodies(S) == {n.body : n \in {m \in S : ~m.raise}}
SearchParsed == [e \in Bodies(SearchNet) |-> parse_course_search_xml(e)]
DetailParsed == [e \in Bodies(DetailNet) |-> parse_course_details_xml(e)]

\* what the network may do when the method asks it; a cache hit asks nothing
NetFor(hit, S) == IF hit THEN {Raise} ELSE S

(***************************************************************************)
(* The methods of CampusNet.  Each takes the cache directory c, its        *)
(* arguments, and net, what the network does if the method asks it: raise, *)
(* or answer with a body.  Each yields the cache directory afterwards, the *)
(* number of requests made, whether the request raised, whether the method *)
(* wrote its cache path, and the value returned or the exception raised.   *)
(***************************************************************************)
Outcome(c, f, r, w, res) ==
    [cache |-> c, fetches |-> f, raised |-> r, wrote |-> w, result |-> res]

\* CampusNet.terms; the body is the page: the term block found by re.search
\* with the values re.findall takes from it, or no block
terms(c, load_cache, net) ==
    IF load_cache /\ Exists(c, TermsPath) THEN
        Outcome(c, 0, FALSE, FALSE, Ok(ReadTerms(c[TermsPath])))
    ELSE IF net.raise THEN
        Outcome(c, 1, TRUE, FALSE, Err("RequestException"))
    ELSE IF net.body.present THEN
        Outcome(Write(c, TermsPath, Join(net.body.text)), 1, FALSE, TRUE,
                Ok(net.body.text))
    ELSE
        Outcome(c, 1, FALSE, FALSE, Err("CampusException"))

\* CampusNet.subjects
subjects(c, term, acad, load_cache, net) ==
    LET path == SubjectsPath(term, acad)
    IN IF load_cache /\ Exists(c, path) THEN
           Outcome(c, 0, FALSE, FALSE, subjects_parse(c[path]))
       ELSE IF net.raise THEN
           Outcome(c, 1, TRUE, FALSE, Err("RequestException"))
       ELSE IF load_cache THEN
           Outcome(Write(c, path, net.body), 1, FALSE, TRUE, subjects_parse(net.body))
       ELSE
           Outcome(c, 1, FALSE, FALSE, subjects_parse(net.body))

\* a variant that swallows a failed request and returns no courses
find_courses_swallow(c, term, subject, acad, load_cache, net) ==
    LET path == SearchPath(term, subject)
    IN IF load_cache /\ Exists(c, path) THEN
           Outcome(c, 0, FALSE, FALSE, SearchParsed[c[path]])
       ELSE IF net.raise THEN
           Outcome(c, 1, TRUE, FALSE, Ok([keys |-> <<>>, secs |-> <<>>]))
       ELSE
           Outcome(Write(c, path, net.body), 1, FALSE, TRUE, SearchParsed[net.body])

\* a variant that extracts the response before it writes it
find_courses_parse_first(c, term, subject, acad, load_cache, net) ==
    LET path == SearchPath(term, subject)
    IN IF load_cache /\ Exists(c, path) THEN
           Outcome(c, 0, FALSE, FALSE, SearchParsed[c[path]])
       ELSE IF net.raise THEN
           Outcome(c, 1, TRUE, FALSE, Err("AssertionError"))
       ELSE IF SearchParsed[net.body].status = "error" THEN
           Outcome(c, 1, FALSE, FALSE, SearchParsed[net.body])
       ELSE
           Outcome(Write(c, path, net.body), 1, FALSE, TRUE, SearchParsed[net.body])

\* a variant whose cache path names the academic career too
find_courses_by_acad(c, term, subject, acad, load_cache, net) ==
    LET path == SearchPath(term, subject \o <<"_">> \o acad)
    IN IF load_cache /\ Exists(c, path) THEN
           Outcome(c, 0, FALSE, FALSE, SearchParsed[c[path]])
       ELSE IF net.raise THEN
           Outcome(c, 1, TRUE, FALSE, Err("AssertionError"))
       ELSE
           Outcome(Write(c, path, net.body), 1, FALSE, TRUE, SearchParsed[net.body])

\* CampusNet.find_courses with retrieve_xml and _search_courses; the request
\* raises on a transport failure or, by the assert, on a response that is not ok
find_courses(c, term, subject, acad, load_cache, net) ==
    LET path == SearchPath(term, subject)
    IN IF load_cache /\ Exists(c, path) THEN
           Outcome(c, 0, FALSE, FALSE, SearchParsed[c[path]])
       ELSE IF net.raise THEN
           Outcome(c, 1, TRUE, FALSE, Err("AssertionError"))
       ELSE
           Outcome(Write(c, path, net.body), 1, FALSE, TRUE, SearchParsed[net.body])

\* a variant that writes the response before it is extracted
class_details_write_first(c, termNbr, classNbr, acad, load_cache, net) ==
    LET path == DetailsPath(termNbr, classNbr, acad)
    IN IF load_cache /\ Exists(c, path) THEN
           Outcome(c, 0, FALSE, FALSE, DetailParsed[c[path]])
       ELSE IF net.raise THEN
           Outcome(c, 1, TRUE, FALSE, Err("RequestException"))
       ELSE
           Outcome(Write(c, path, net.body), 1, FALSE, TRUE, DetailParsed[net.body])

\* CampusNet.class_details with process and query
class_details(c, termNbr, classNbr, acad, load_cache, net) ==
    LET path == DetailsPath(termNbr, classNbr, acad)
    IN IF load_cache /\ Exists(c, path) THEN
           Outcome(c, 0, FALSE, FALSE, DetailParsed[c[path]])
       ELSE IF net.raise THEN
           Outcome(c, 1, TRUE, FALSE, Err("RequestException"))
       ELSE IF DetailParsed[net.body].status = "error" THEN
           Outcome(c, 1, FALSE, FALSE, DetailParsed[net.body])
       ELSE
           Outcome(Write(c, path, net.body), 1, FALSE, TRUE, DetailParsed[net.body])

(***************************************************************************)
(* The cache model: one call of a method per step.                         *)
(***************************************************************************)
Init ==
    /\ cache = <<>>
    /\ hist = <<>>
    /\ keyIn = <<>>
    /\ keyOut = <<>>
    /\ sHead = H12
    /\ sNorm = <<>>
    /\ sRows = <<>>
    /\ pst = Idle
    /\ exIn = <<>>
    /\ exOut = <<>>
    /\ enr = <<>>

Record(op, path, acad, load_cache, o) ==
    [op |-> op, path |-> path, acad |-> acad, load_cache |-> load_cache,
     fetches |-> o.fetches, raised |-> o.raised, wrote |-> o.wrote,
     result |-> o.result]

Call(op, path, acad, load_cache, o) ==
    /\ cache' = o.cache
    /\ hist' = Append(hist, Record(op, path, acad, load_cache, o))
    /\ UNCHANGED <<searchVars, keyVars, exVars, enr>>

CallTerms ==
    /\ Len(hist) < MaxCalls
    /\ \E load_cache \in BOOLEAN :
       \E net \in NetFor(load_cache /\ Exists(cache, TermsPath), TermsNet) :
           Call("terms", TermsPath, <<>>, load_cache, terms(cache, load_cache, net))

CallSubjects ==
    /\ Len(hist) < MaxCalls
    /\ \E term \in TermVals, acad \in Acads, load_cache \in BOOLEAN :
       \E net \in NetFor(load_cache /\ Exists(cache, SubjectsPath(term, acad)), SubjectsNet) :
           Call("subjects", SubjectsPath(term, acad), acad, load_cache,
                subjects(cache, term, acad, load_cache, net))

CallFindCourses ==
    /\ Len(hist) < MaxCalls
    /\ \E term \in TermVals, subject \in SubjectVals, acad \in Acads, load_cache \in BOOLEAN :
       \E net \in NetFor(load_cache /\ Exists(cache, SearchPath(term, subject)), SearchNet) :
           Call("find_courses", SearchPath(term, subject), acad, load_cache,
                find_courses(cache, term, subject, acad, load_cache, net))

CallClassDetails ==
    /\ Len(hist) < MaxCalls
    /\ \E termNbr \in TermVals, classNbr \in ClassNbrs, acad \in Acads, load_cache \in BOOLEAN :
       \E net \in NetFor(load_cache /\ Exists(cache, DetailsPath(termNbr, classNbr, acad)), DetailNet) :
           Call("class_details", DetailsPath(termNbr, classNbr, acad), acad, load_cache,
                class_details(cache, termNbr, classNbr, acad, load_cache, net))

Next == CallTerms \/ CallSubjects \/ CallFindCourses \/ CallClassDetails

Spec == Init /\ [][Next]_vars

(***************************************************************************)
(* Properties of the cache.                                                *)
(***************************************************************************)
N == Len(hist)

ResEq(a, b) ==
    /\ a.status = b.status
    /\ a.err = b.err
    /\ a.status = "ok" => a.value = b.value

SameKey(a, b) == a.op = b.op /\ a.path = b.path

\* the step is a call, and NewCall is its record
IsCall == Len(hist') = Len(hist) + 1
NewCall == hist'[Len(hist')]

\* C1: with caching enabled, of two successive calls for one key the first
\* of which fetched a response and returned its result, the second returns
\* what the first returned and does not fetch.
C1_Idempotent ==
    \A i \in 1..(N - 1) :
        ( /\ SameKey(hist[i], hist[i + 1])
          /\ hist[i].load_cache /\ hist[i + 1].load_cache
          /\ hist[i].fetches = 1 /\ hist[i].result.status = "ok" )
        => /\ ResEq(hist[i + 1].result, hist[i].result)
           /\ hist[i + 1].fetches = 0

\* C2: a call with load_cache=False makes exactly one request and leaves the
\* cache directory as it was.
C2_Bypass ==
    [][ (IsCall /\ ~NewCall.load_cache) =>
            (NewCall.fetches = 1 /\ cache' = cache) ]_vars

WrittenBefore(i) ==
    \E j \in 1..(i - 1) : hist[j].path = hist[i].path /\ hist[j].wrote

C4_FetchRaises ==
    [][ IsCall =>
          /\ NewCall.raised =>
                /\ cache' = cache
                /\ NewCall.fetches = 1
                /\ NewCall.result.status = "error"
          /\ ( /\ N >= 1 /\ hist[N].raised
               /\ hist[N].path \notin DOMAIN cache
               /\ SameKey(hist[N], NewCall) /\ NewCall.load_cache )
             => NewCall.fetches = 1
      ]_vars

\* a request that raised, leaving no entry, then a cache-enabled call for the
\* same key that fetched and persisted
C4_Witness ==
    /\ N = 2
    /\ hist[1].raised /\ hist[1].result.status = "error"
    /\ SameKey(hist[1], hist[2])
    /\ hist[2].load_cache /\ hist[2].fetches = 1 /\ hist[2].wrote
    /\ hist[2].path \in DOMAIN cache

\* C5: an entry, once created, stays and keeps its text.
C5_ReadOnly ==
    [][ \A p \in DOMAIN cache : p \in DOMAIN cache' /\ cache'[p] = cache[p] ]_vars

\* the call that populated the entry read by call j
Populator(j) ==
    CHOOSE i \in 1..(j - 1) :
        /\ hist[i].path = hist[j].path /\ hist[i].wrote
        /\ \A k \in 1..(j - 1) :
               (hist[k].path = hist[j].path /\ hist[k].wrote) => k <= i

\* C7: a cache hit returns what the call that populated the entry returned.
C7_Replay ==
    \A j \in 1..N :
        (hist[j].load_cache /\ hist[j].fetches = 0) =>
            ResEq(hist[j].result, hist[Populator(j)].result)

\* the path lies in the directory of the detail entries
IsDetailsPath(p) == StartsWith(p, <<"d", "e", "t", "a", "i", "l", "s", "/">>)

\* C24: every detail entry of the cache holds a response that the detail
\* extraction accepts, and a class_details call whose fetched response failed
\* extraction has written nothing.
C24_DetailEntriesAccepted ==
    /\ \A p \in DOMAIN cache :
           IsDetailsPath(p) => parse_course_details_xml(cache[p]).status = "ok"
    /\ \A i \in 1..N :
           ( /\ hist[i].op = "class_details" /\ hist[i].fetches = 1
             /\ hist[i].result.status = "error" )
           => ~hist[i].wrote

\* a class_details call fetched a response that failed extraction and left no
\* entry; the next call for the key fetched again, and its accepted response
\* is the entry
C24_Witness ==
    /\ N = 2
    /\ hist[1].op = "class_details" /\ hist[1].load_cache
    /\ hist[1].fetches = 1 /\ ~hist[1].raised
    /\ hist[1].result.status = "error" /\ ~hist[1].wrote
    /\ SameKey(hist[1], hist[2])
    /\ hist[2].fetches = 1 /\ hist[2].wrote /\ hist[2].result.status = "ok"
    /\ DOMAIN cache = {hist[2].path}

\* no call between i and j had caching disabled for the path of call i
NoBypassBetween(i, j) ==
    \A k \in (i + 1)..(j - 1) : hist[k].path = hist[i].path => hist[k].load_cache

\* C25: find_courses writes every response it fetched, also one on which the
\* extraction fails; after such a call every cache-enabled find_courses call
\* for the same term and subject makes no request and fails with the same
\* error, as long as no call for the key has caching disabled.
C25_FailurePersisted ==
    /\ \A i \in 1..N :
           (hist[i].op = "find_courses" /\ hist[i].fetches = 1 /\ ~hist[i].raised)
               => (hist[i].wrote /\ hist[i].path \in DOMAIN cache)
    /\ \A i, j \in 1..N :
           ( /\ i < j
             /\ hist[i].op = "find_courses" /\ hist[i].fetches = 1 /\ ~hist[i].raised
             /\ hist[i].result.status = "error"
             /\ SameKey(hist[i], hist[j]) /\ hist[j].load_cache
             /\ NoBypassBetween(i, j) )
           => /\ hist[j].fetches = 0
              /\ hist[j].result.status = "error"
              /\ hist[j].result.err = hist[i].result.err

\* a find_courses call fetched a response with an unknown row shape, failed
\* and left the entry; the next cache-enabled call for the key made no
\* request and failed with the same error
C25_Witness ==
    /\ N = 2
    /\ hist[1].op = "find_courses" /\ hist[1].fetches = 1 /\ ~hist[1].raised
    /\ hist[1].result.status = "error" /\ hist[1].result.err = "AssertionError"
    /\ hist[1].wrote
    /\ SameKey(hist[1], hist[2]) /\ hist[2].load_cache
    /\ hist[2].fetches = 0
    /\ hist[2].result.status = "error" /\ hist[2].result.err = "AssertionError"

\* C26: the entry of a section search is keyed by term and subject only. After
\* a find_courses call that wrote the entry, a cache-enabled find_courses call
\* for the same term and subject with another academic career makes no
\* request and returns what the first call returned, as long as no call for
\* the key has caching disabled.
C26_CareerIgnored ==
    \A i, j \in 1..N :
        ( /\ i < j
          /\ hist[i].op = "find_courses" /\ hist[i].wrote
          /\ SameKey(hist[i], hist[j]) /\ hist[j].load_cache
          /\ hist[i].acad # hist[j].acad
          /\ NoBypassBetween(i, j) )
        => /\ hist[j].fetches = 0
           /\ ResEq(hist[j].result, hist[i].result)

\* a search for one career fetched a course group with a section; the search
\* for the other career made no request and returned that course group
C26_Witness ==
    /\ N = 2
    /\ hist[1].op = "find_courses" /\ hist[1].fetches = 1 /\ hist[1].wrote
    /\ hist[1].result.status = "ok" /\ hist[1].result.value.keys # <<>>
    /\ SameKey(hist[1], hist[2]) /\ hist[2].load_cache
    /\ hist[1].acad # hist[2].acad
    /\ hist[2].fetches = 0
    /\ hist[2].result = hist[1].result

(***************************************************************************)
(* The cache keys as a function of the parameters.                         *)
(***************************************************************************)
KeyStrs == {<<"a">>, <<"_">>, <<"a", "_", "a">>}

KeyTuples(kind) ==
    IF kind = "details" THEN KeyStrs \X KeyStrs \X KeyStrs ELSE KeyStrs \X KeyStrs

\* the path each method composes from its parameters
PathOf(kind, t) ==
    IF kind = "subjects" THEN SubjectsPath(t[1], t[2])
    ELSE IF kind = "search" THEN SearchPath(t[1], t[2])
    ELSE DetailsPath(t[1], t[2], t[3])

KeysInit ==
    /\ keyIn \in UNION {[kind : {k}, t1 : KeyTuples(k), t2 : KeyTuples(k)] :
                           k \in {"subjects", "search", "details"}}
    /\ keyOut = <<>>
    /\ cache = <<>>
    /\ hist = <<>>
    /\ sHead = H12
    /\ sNorm = <<>>
    /\ sRows = <<>>
    /\ pst = Idle
    /\ exIn = <<>>
    /\ exOut = <<>>
    /\ enr = <<>>

ComputeKeys ==
    /\ keyOut = <<>>
    /\ keyOut' = <<PathOf(keyIn.kind, keyIn.t1), PathOf(keyIn.kind, keyIn.t2)>>
    /\ UNCHANGED <<keyIn, searchVars, cacheVars, exVars, enr>>

SpecKeys == KeysInit /\ [][ComputeKeys]_vars

\* C6: within a data kind, two different parameter tuples get different paths.
C6_Injective ==
    (keyOut # <<>> /\ keyIn.t1 # keyIn.t2) => keyOut[1] # keyOut[2]

(***************************************************************************)
(* Course and Course.from_instances.                                       *)
(***************************************************************************)
\* the fields of the dataclass Course(CourseDetailResult, CourseSearchResult)
CourseFields == CourseSearchResultFields \cup CourseDetailResultFields

\* dataclasses.asdict: the mapping from each field name to a copy of its value
asdict(x) == [f \in DOMAIN x |-> x[f]]

\* a variant that keeps the right operand only
DictOr_right(a, b) == b

\* a | b on dicts: the keys of both, the value of b for a key of both
DictOr(a, b) == [k \in DOMAIN a \cup DOMAIN b |-> IF k \in DOMAIN b THEN b[k] ELSE a[k]]

\* cls(**asdict(search) | asdict(details)); the constructor raises TypeError
\* unless the keys are exactly the fields of Course
from_instances(search, details) ==
    LET kw == DictOr(asdict(search), asdict(details))
    IN IF DOMAIN kw = CourseFields THEN Ok(kw) ELSE Err("TypeError")

(***************************************************************************)
(* Inputs of the extractors.                                               *)
(***************************************************************************)
MaxCells == 3

OtherCode == <<"O", "T", "H", "E", "R">>

\* the text of an <ErrorCode> element: the benign code, the benign code with
\* a blank before it, another code, and no text
ErrorCodes == {NOCL2, <<" ">> \o NOCL2, OtherCode, None}

ClassLists ==
    {NoElement, Element(<<>>), Element(Table1), Element(TableBad),
     Element([tag |-> "div", rows |-> <<>>])}

SearchInputs ==
    {[op |-> "search", arg |-> SearchEnvelope(code, cl), present |-> {}, extra |-> FALSE] :
        code \in {NoElement} \cup {Element(c) : c \in ErrorCodes}, cl \in ClassLists}

\* the labels of the summary table in page order, by the field each becomes
LabelOrder ==
    <<D_session, D_consent, D_component, D_status, D_credits, D_enrollment,
      D_lastdaytoadd, D_lastdaytodrop, D_lastdaytowithdraw>>

FullTable == FirstTable(<<"3", ".", "0", "0">>)

\* the cells of a summary table that carries the labels of S only
RECURSIVE SummaryFrom(_, _)
SummaryFrom(S, k) ==
    IF k > Len(LabelOrder) THEN <<>>
    ELSE (IF LabelOrder[k] \in S THEN <<FullTable[2 * k - 1], FullTable[2 * k]>> ELSE <<>>)
         \o SummaryFrom(S, k + 1)

\* a label that names no field of CourseDetailResult, and its value
ExtraCells == << <<"U", "n", "i", "t", "s", ":">>, <<"3">> >>

\* a detail response whose page carries the labels of S, and the extra label
DetailInput(code, S, extra) ==
    [op |-> "details",
     arg |-> DetailEnvelope(code, Element(DetailDiv(
                 SummaryFrom(S, 1) \o (IF extra THEN ExtraCells ELSE <<>>),
                 IF D_description \in S THEN DescriptionTds ELSE <<>>))),
     present |-> S, extra |-> extra]

DetailInputs ==
    {DetailInput(NoElement, S, x) : S \in SUBSET CourseDetailResultFields, x \in BOOLEAN}
    \cup {DetailInput(Element(c), CourseDetailResultFields, FALSE) : c \in ErrorCodes}
    \cup {[op |-> "details", arg |-> DetailEnvelope(Element(c), NoElement),
           present |-> {}, extra |-> FALSE] : c \in ErrorCodes}

\* td.text of a cell of the summary table: None for a cell without direct text
CellTexts ==
    {None, <<>>, <<"A", ":">>, <<"A", ":", " ">>, <<" ", "B", ":">>, <<"v", " ">>, <<":">>}

RECURSIVE SeqsUpTo(_, _)
SeqsUpTo(S, n) ==
    IF n = 0 THEN {<<>>}
    ELSE LET shorter == SeqsUpTo(S, n - 1)
         IN shorter \cup {Append(q, x) : q \in shorter, x \in S}

ScanInputs ==
    {[op |-> "scan", arg |-> tds, present |-> {}, extra |-> FALSE] :
        tds \in SeqsUpTo(CellTexts, MaxCells)}

\* instances of CourseSearchResult and of CourseDetailResult
SearchInstances ==
    {CourseSearchResult(name, topic, Kwargs(NormHeadings(H12), RowTexts(r))) :
        name \in {<<"A">>, <<>>}, topic \in {None, <<"X">>},
        r \in {q \in SectionRows : Len(q) = Len(H12)}}

DetailInstances ==
    {[f \in CourseDetailResultFields |-> IF f \in S THEN v ELSE None] :
        S \in {{}, {D_status}, {D_session, D_component}, CourseDetailResultFields},
        v \in {<<"O", "p", "e", "n">>, <<>>}}

MergeInputs ==
    {[op |-> "merge", arg |-> [search |-> x, details |-> d],
      present |-> {}, extra |-> FALSE] : x \in SearchInstances, d \in DetailInstances}

MaxLen == 4

\* the characters of a label: blank, letters of both cases, a digit, the
\* underscore and punctuation
LabelChars == {" ", "A", "a", "1", "_", "-", "."}

NormalizeInputs ==
    {[op |-> "normalize", arg |-> t, present |-> {}, extra |-> FALSE] :
        t \in SeqsUpTo(LabelChars, MaxLen)}

(***************************************************************************)
(* The extractors applied to one input.                                    *)
(***************************************************************************)
ExtractInit ==
    /\ \/ exIn \in SearchInputs
       \/ exIn \in DetailInputs
       \/ exIn \in ScanInputs
       \/ exIn \in MergeInputs
       \/ exIn \in NormalizeInputs
    /\ exOut = <<>>
    /\ enr = <<>>
    /\ cache = <<>>
    /\ hist = <<>>
    /\ keyIn = <<>>
    /\ keyOut = <<>>
    /\ sHead = H12
    /\ sNorm = <<>>
    /\ sRows = <<>>
    /\ pst = Idle

Extracted(v) ==
    /\ exOut = <<>>
    /\ exOut' = v
    /\ UNCHANGED <<exIn, enr, searchVars, cacheVars, keyVars>>

ExtractSearch == exIn.op = "search" /\ Extracted(parse_course_search_xml(exIn.arg))

ExtractDetails == exIn.op = "details" /\ Extracted(parse_course_details_xml(exIn.arg))

ExtractScan == exIn.op = "scan" /\ Extracted(ScanPairs(exIn.arg, 1))

ExtractMerge ==
    exIn.op = "merge" /\ Extracted(from_instances(exIn.arg.search, exIn.arg.details))

\* normalize applied to a label, and applied again to the key it gave
ExtractNormalize ==
    /\ exIn.op = "normalize"
    /\ Extracted(Ok([key |-> normalize(exIn.arg), again |-> normalize(normalize(exIn.arg))]))

ExtractNext ==
    ExtractSearch \/ ExtractDetails \/ ExtractScan \/ ExtractMerge \/ ExtractNormalize

SpecExtract == ExtractInit /\ [][ExtractNext]_vars

(***************************************************************************)
(* Properties of the extractors.                                           *)
(***************************************************************************)
Done(op) == exIn.op = op /\ exOut # <<>>

EmptyCourseGroup == [keys |-> <<>>, secs |-> <<>>]

\* C12: when the search envelope has an error code, the code alone decides:
\* the code CSTCLS_NOCL2 gives the empty course group and no error, any other
\* code makes the extraction fail, whatever class list the envelope carries.
C12_ErrorCodeFirst ==
    (Done("search") /\ exIn.arg.error_code.present) =>
        IF exIn.arg.error_code.text = NOCL2
        THEN exOut.status = "ok" /\ exOut.value = EmptyCourseGroup
        ELSE exOut.status = "error" /\ exOut.err = "CampusException"

\* the benign code next to a well-formed class table with a section: the
\* result is the empty course group
C12_Witness ==
    /\ Done("search")
    /\ exIn.arg.error_code = Element(NOCL2)
    /\ exIn.arg.classlist = Element(Table1)
    /\ parse_course_search_xml(SearchEnvelope(NoElement, Element(Table1))).value
           # EmptyCourseGroup
    /\ exOut = Ok(EmptyCourseGroup)

\* C15: a detail envelope with an error code, the code CSTCLS_NOCL2 included,
\* makes the extraction fail and returns no record.
C15_DetailCodeFatal ==
    (Done("details") /\ exIn.arg.error_code.present) =>
        exOut.status = "error" /\ exOut.err = "CampusException"

\* the code that is benign for search next to a complete detail page: the
\* extraction has failed
C15_Witness ==
    /\ Done("details")
    /\ exIn.arg.error_code = Element(NOCL2)
    /\ exIn.present = CourseDetailResultFields
    /\ parse_course_details_xml(
           DetailInput(NoElement, CourseDetailResultFields, FALSE).arg).status = "ok"
    /\ exOut.status = "error"

\* the value the page of DetailInput shows for field f
ValueOf(f) ==
    IF f = D_description THEN DescriptionTds[1][2]
    ELSE Strip(FullTable[2 * (CHOOSE k \in DOMAIN LabelOrder : LabelOrder[k] = f)])

\* C16: a detail page without error code that carries any subset of the ten
\* recognized labels and no other label is extracted without error; a field
\* whose label is on the page has the value scanned and every other is None.
C16_OptionalFields ==
    (Done("details") /\ ~exIn.arg.error_code.present /\ ~exIn.extra) =>
        /\ exOut.status = "ok"
        /\ DOMAIN exOut.value = CourseDetailResultFields
        /\ \A f \in CourseDetailResultFields :
               exOut.value[f] = IF f \in exIn.present THEN ValueOf(f) ELSE None

\* C17: a detail page that carries the ten recognized labels and a label that
\* names no field is extracted without error; the record has the ten fields
\* with the values scanned and no more.
C17_ExtraLabel ==
    ( /\ Done("details") /\ ~exIn.arg.error_code.present
      /\ exIn.extra /\ exIn.present = CourseDetailResultFields ) =>
        /\ exOut.status = "ok"
        /\ DOMAIN exOut.value = CourseDetailResultFields
        /\ \A f \in CourseDetailResultFields : exOut.value[f] = ValueOf(f)

\* the trimmed text of a cell, a cell without direct text having none
Trimmed(c) == IF c = None THEN <<>> ELSE Strip(c)

\* the pairs label -> value of the adjacent cells (i, i + 1) where the trimmed
\* text of cell i ends with a colon
RECURSIVE ExpectedPairs(_, _)
ExpectedPairs(tds, i) ==
    IF i + 1 > Len(tds) THEN <<>>
    ELSE IF EndsWithColon(Trimmed(tds[i]))
         THEN << <<SubSeq(Trimmed(tds[i]), 1, Len(Trimmed(tds[i])) - 1), Trimmed(tds[i + 1])>> >>
              \o ExpectedPairs(tds, i + 1)
         ELSE ExpectedPairs(tds, i + 1)

\* C18: the scan of the summary cells never fails, and it records the pair
\* label -> trimmed value for exactly the adjacent cells (i, i + 1) where the
\* trimmed text of cell i ends with a colon (labels compared trimmed).
C18_Scan ==
    Done("scan") =>
        /\ exOut.status = "ok"
        /\ [i \in 1..Len(exOut.value) |-> <<Strip(exOut.value[i][1]), exOut.value[i][2]>>]
               = ExpectedPairs(exIn.arg, 1)

\* C19: Course.from_instances raises nothing; the composite has the fields of
\* both inputs, every field of the section with the section's value and every
\* field of the detail record with the detail's value, and the inputs are
\* left as they were.
C19_Merge ==
    [][ (exIn.op = "merge" /\ exOut = <<>> /\ exOut' # <<>>) =>
          /\ exIn' = exIn
          /\ exOut'.status = "ok"
          /\ DOMAIN exOut'.value = CourseSearchResultFields \cup CourseDetailResultFields
          /\ \A f \in CourseSearchResultFields : exOut'.value[f] = exIn.arg.search[f]
          /\ \A f \in CourseDetailResultFields : exOut'.value[f] = exIn.arg.details[f]
      ]_vars

\* a section with topic and status cell "O" merged with a detail record of
\* status "Open": the composite holds both
C19_Witness ==
    /\ Done("merge")
    /\ exIn.arg.search[F_topic] = <<"X">>
    /\ exIn.arg.search[F_stat] = <<"O">>
    /\ exIn.arg.details[D_status] = <<"O", "p", "e", "n">>
    /\ exOut.status = "ok"
    /\ exOut.value[F_topic] = <<"X">>
    /\ exOut.value[F_stat] = <<"O">>
    /\ exOut.value[D_status] = <<"O", "p", "e", "n">>
    /\ exOut.value[D_session] = None

\* the reference: trim, lowercase, then delete every character that is no
\* letter, no digit and not the underscore
IsBlank(c) == c = " " \/ c = "\n" \/ c = "\t"

RECURSIVE TrimLeft(_)
TrimLeft(t) == IF Len(t) > 0 /\ IsBlank(t[1]) THEN TrimLeft(SubSeq(t, 2, Len(t))) ELSE t

RECURSIVE TrimRight(_)
TrimRight(t) == IF Len(t) > 0 /\ IsBlank(t[Len(t)]) THEN TrimRight(SubSeq(t, 1, Len(t) - 1)) ELSE t

Lowered(c) == IF c = "A" THEN "a" ELSE c

IsKeyChar(c) == c \in {"A", "a", "1", "_"}

RefNormalize(t) ==
    LET u == TrimRight(TrimLeft(t))
    IN SelectSeq([i \in 1..Len(u) |-> Lowered(u[i])], IsKeyChar)

\* C21: normalize(s) is the reference (trim, lowercase, delete every character
\* that is no letter, digit or underscore); a label whose trimmed text starts
\* with a digit gets a key that starts with that digit; and normalize applied
\* to a key gives the key again.
C21_Normalize ==
    Done("normalize") =>
        /\ exOut.value.key = RefNormalize(exIn.arg)
        /\ exOut.value.again = exOut.value.key
        /\ LET u == TrimRight(TrimLeft(exIn.arg))
           IN (Len(u) > 0 /\ u[1] = "1") =>
                  (Len(exOut.value.key) > 0 /\ exOut.value.key[1] = "1")

\* the label " 1A-" has given the key "1a", and normalize of "1a" is "1a"
C21_Witness ==
    /\ Done("normalize")
    /\ exIn.arg = <<" ", "1", "A", "-">>
    /\ exOut.value.key = <<"1", "a">>
    /\ exOut.value.again = <<"1", "a">>

(***************************************************************************)
(* main: the loop that retrieves the details of every section.  The state  *)
(* enr holds all_sections, the number of sections taken from it, the       *)
(* sections reported as missing a class number, the list combined, and     *)
(* whether the loop runs, has ended, or has raised.                        *)
(***************************************************************************)
MaxSections == 3

\* term.split('-')[0]
RECURSIVE SplitHead(_, _)
SplitHead(s, sep) ==
    IF s = <<>> \/ Head(s) = sep THEN <<>>
    ELSE <<Head(s)>> \o SplitHead(Tail(s), sep)

TermArg == <<"1", "1", "4", "-", "F", "a", "l", "l">>
SubjectArg == <<"C", "I", "S">>
AcadArg == <<"G", "R", "A", "D">>

\* the sections the search can have returned: with a class number, with
\* another, and without one
EnrichSections ==
    {CourseSearchResult(<<"A">>, None, Kwargs(NormHeadings(H12), RowTexts(SectionRow(nr, <<"x">>)))) :
        nr \in {<<"2", "6", "4", "4">>, <<"2", "6", "4", "5">>, <<>>}}

\* a detail response that extracts, as an earlier run can have cached it
GoodDetails ==
    DetailEnvelope(NoElement, Element(DetailDiv(FirstTable(<<"3", ".", "0", "0">>), DescriptionTds)))

EnrichInit ==
    /\ \E secs \in SeqsUpTo(EnrichSections, MaxSections) :
           enr = [sections |-> [k \in 1..Len(secs) |->
                                   [term |-> TermArg, subject |-> SubjectArg, section |-> secs[k]]],
                  i |-> 0, warned |-> <<>>, combined |-> <<>>, status |-> "run"]
    /\ cache \in {<<>>,
                  Write(<<>>, DetailsPath(SplitHead(TermArg, "-"), <<"2", "6", "4", "4">>, AcadArg),
                        GoodDetails)}
    /\ hist = <<>>
    /\ exIn = <<>>
    /\ exOut = <<>>
    /\ keyIn = <<>>
    /\ keyOut = <<>>
    /\ sHead = H12
    /\ sNorm = <<>>
    /\ sRows = <<>>
    /\ pst = Idle

\* the section the loop takes next
NextItem == enr.sections[enr.i + 1]

\* if not section.classnr
MissingNumber(section) == section[F_classnr] = None \/ section[F_classnr] = <<>>

\* a variant that leaves the loop at a section without class number
Continue_break(e) == [e EXCEPT !.i = @ + 1, !.warned = Append(@, e.i + 1), !.status = "done"]

\* print('WARN: ...'); continue
Continue(e) == [e EXCEPT !.i = @ + 1, !.warned = Append(@, e.i + 1)]

\* one iteration for a section without class number
EnrichWarn ==
    /\ enr.status = "run"
    /\ enr.i < Len(enr.sections)
    /\ MissingNumber(NextItem.section)
    /\ enr' = Continue(enr)
    /\ UNCHANGED <<cacheVars, searchVars, keyVars, exVars>>

\* one iteration for a section with a class number: class_details, then
\* Course.from_instances and combined.append, any exception raised again
EnrichDetails ==
    /\ enr.status = "run"
    /\ enr.i < Len(enr.sections)
    /\ ~MissingNumber(NextItem.section)
    /\ LET termNbr == SplitHead(NextItem.term, "-")
           classNbr == NextItem.section[F_classnr]
           path == DetailsPath(termNbr, classNbr, AcadArg)
       IN \E net \in NetFor(Exists(cache, path), DetailNet) :
            LET o == class_details(cache, termNbr, classNbr, AcadArg, TRUE, net)
                c == IF o.result.status = "ok"
                     THEN from_instances(NextItem.section, o.result.value)
                     ELSE o.result
            IN /\ cache' = o.cache
               /\ hist' = Append(hist, Record("class_details", path, AcadArg, TRUE, o))
               /\ enr' = IF c.status = "ok"
                         THEN [enr EXCEPT !.i = @ + 1,
                                          !.combined = Append(@, <<NextItem.term, NextItem.subject, c.value>>)]
                         ELSE [enr EXCEPT !.i = @ + 1, !.status = "error"]
    /\ UNCHANGED <<searchVars, keyVars, exVars>>

\* all_sections is exhausted: the loop ends and combined is printed
EnrichEnd ==
    /\ enr.status = "run"
    /\ enr.i = Len(enr.sections)
    /\ enr' = [enr EXCEPT !.status = "done"]
    /\ UNCHANGED <<cacheVars, searchVars, keyVars, exVars>>

EnrichNext == EnrichWarn \/ EnrichDetails \/ EnrichEnd

SpecEnrich == EnrichInit /\ [][EnrichNext]_vars

\* the step takes the section at position k of all_sections
Takes(k) == enr.status = "run" /\ enr.i = k - 1 /\ enr'.i = k /\ k <= Len(enr.sections)

\* C20: the loop takes the sections one at a time in the order of
\* all_sections. A section without class number causes no call of
\* class_details and no change of the cache, is reported, and leaves the loop
\* running. A section with a class number causes exactly one call of
\* class_details for its term number, class number and career (one request,
\* or none when the entry exists) within the same step; when the call
\* returns, the composite is appended to combined and the loop runs on; when
\* it raises, the loop has raised and takes no further section. The loop ends
\* only when every section has been taken.
C20_EnrichLoop ==
    [][ (enr' # enr \/ hist' # hist \/ cache' # cache) =>
          /\ enr.status = "run"
          /\ enr'.sections = enr.sections
          /\ \/ /\ enr'.status = "done"
                /\ enr.i = Len(enr.sections)
                /\ enr' = [enr EXCEPT !.status = "done"]
                /\ hist' = hist /\ cache' = cache
             \/ /\ Takes(enr.i + 1)
                /\ LET item == enr.sections[enr.i + 1]
                       nr == item.section[F_classnr]
                   IN IF nr = None \/ Len(nr) = 0
                      THEN /\ hist' = hist /\ cache' = cache
                           /\ enr'.warned = Append(enr.warned, enr.i + 1)
                           /\ enr'.combined = enr.combined
                           /\ enr'.status = "run"
                      ELSE /\ Len(hist') = Len(hist) + 1
                           /\ SubSeq(hist', 1, Len(hist)) = hist
                           /\ NewCall.op = "class_details"
                           /\ NewCall.path = DetailsPath(<<"1", "1", "4">>, nr, AcadArg)
                           /\ NewCall.fetches = IF NewCall.path \in DOMAIN cache THEN 0 ELSE 1
                           /\ enr'.warned = enr.warned
                           /\ IF NewCall.result.status = "ok"
                              THEN /\ enr'.status = "run"
                                   /\ Len(enr'.combined) = Len(enr.combined) + 1
                                   /\ LET x == enr'.combined[Len(enr'.combined)][3]
                                      IN /\ \A f \in CourseSearchResultFields : x[f] = item.section[f]
                                         /\ \A f \in CourseDetailResultFields : x[f] = NewCall.result.value[f]
                              ELSE /\ enr'.status = "error"
                                   /\ enr'.combined = enr.combined
      ]_vars

\* the loop has ended over three sections: the first fetched its details, the
\* second had no class number and was reported, the third was still taken and
\* read its details from the cache
C20_Witness ==
    /\ enr # <<>>
    /\ enr.status = "done"
    /\ Len(enr.sections) = 3
    /\ enr.warned = <<2>>
    /\ Len(hist) = 2
    /\ hist[1].fetches = 1 /\ hist[2].fetches = 0
    /\ Len(enr.combined) = 2

====
